---- MODULE Spec2Model ----
(***************************************************************************)
(* Model of onnxruntime/core/providers/opencl/opencl_allocator.cc:         *)
(* OpenCLBufferAllocator and OpenCLImage2DAllocator, two exact-match       *)
(* caching allocators over the OpenCL memory-object API.                   *)
(*                                                                         *)
(* One behaviour follows one allocator object from construction to         *)
(* destruction; `kind` says which of the two classes it is.  The OpenCL    *)
(* runtime is the environment: clCreateBuffer / clCreateImage either fail  *)
(* or return a handle that is not the address of any live memory object,   *)
(* and clReleaseMemObject is only recorded.                                *)
(***************************************************************************)
EXTENDS Integers, Sequences, FiniteSets, TLC

\* ---------------------------------------------------------------- bounds
\* Number of memory objects the device can hold for this allocator.
MaxHandles == 2
\* Buffer sizes requested: 0 .. MaxSize bytes.
MaxSize == 1
\* Device limits handed to the OpenCLImage2DAllocator constructor.
MaxImageWidth == 2
MaxImageHeight == 1
\* Cap on the number of Free calls whose argument is not in use (a double
\* Free, a handle of somebody else, nullptr); it also bounds the lists, which
\* only such calls can grow beyond the number of handles.
MaxMisuse == 1
\* Number of execution contexts that call into one allocator.
MaxContexts == 2

\* ---------------------------------------------------------------- values
Null == 0
\* What a call gives back when it throws or returns void: not a pointer.
Nothing == 0 - 1
NativeHandles == 1 .. MaxHandles
\* A live memory object that belongs to somebody else (the sibling allocator,
\* another context) and that a caller can wrongly pass to Free.
ForeignHandles == {MaxHandles + 1}
Ptrs == {Null} \cup NativeHandles \cup ForeignHandles

Sizes == 0 .. MaxSize
\* Descriptors requested: widths at and around both ends of the valid range,
\* heights at and around its upper end and at zero.
Descs == {0, 1, MaxImageWidth, MaxImageWidth + 1}
           \X {0, MaxImageHeight, MaxImageHeight + 1}
Width(desc) == desc[1]
Height(desc) == desc[2]

\* image_max_wh[0] and image_max_wh[1] as set by the constructor.
image_max_wh == <<MaxImageWidth, MaxImageHeight>>

\* A value-initialised metadata record: meta_[p] on a miss inserts it.
DefaultSize == 0
DefaultDesc == <<0, 0>>

EmptyMap == [x \in {} |-> 0]

Contexts == 1 .. MaxContexts
\* a context that is not inside Alloc
Idle == [pc |-> "idle", key |-> Null, ptr |-> Null, blind |-> FALSE]

VARIABLES
  kind,        \* "Buffer" or "Image2D": the class of this allocator object
  meta_,       \* handle -> recorded key (size or descriptor)
  cache_,      \* key -> list of parked handles, front first
  device,      \* handle -> key, for every successful native creation call
  released,    \* handle -> number of clReleaseMemObject calls issued on it
  destroyed,   \* the destructor has run
  held,        \* handle -> number of Alloc results not yet passed to Free
  discipline,  \* what every Free so far obeyed: "inuse", "returned", "any"
  misuses,     \* number of Free calls whose argument was not in use
  returned,    \* handles some Alloc has returned
  last,        \* the most recent call: arguments and outcome
  seq,         \* whether the most recent calls are Alloc(k) -> h, Free(h), Alloc
  probe,       \* which of last, seq and runs this behaviour records
  watch,       \* the keys whose runs of Free calls are recorded in `runs`
  runs,        \* key -> handles freed in a row for it, and what Alloc then gave
  ncalls,      \* number of calls since construction, counted up to four
  peak,        \* key -> largest number of its handles in use at one time,
               \* kept while every Free is given a handle in use
  calls,       \* execution context -> the Alloc it is in: position, key, local ptr
  raced        \* a context took a step while another was inside Alloc

vars == <<kind, meta_, cache_, device, released, destroyed, held,
          discipline, misuses, returned, last, seq, probe, watch,
          runs, ncalls, peak, calls, raced>>

\* ------------------------------------------------------------ containers
\* A lookup that never finds anything to reuse.
MissAlways(key) == TRUE

\* std::map::find(key) == end() || it->second.empty()
Miss(key) == IF key \in DOMAIN cache_ THEN cache_[key] = <<>> ELSE TRUE

\* A read of the far end of the list, where pop_front removes the near one.
Back(key) == cache_[key][Len(cache_[key])]

\* it->second.front()
Front(key) == Head(cache_[key])

\* A reuse that forgets pop_front().
PopFrontKeeps(key) == cache_

\* it->second.pop_front()
PopFront(key) == [cache_ EXCEPT ![key] = Tail(@)]

\* A creation that records a value-initialised key instead of the requested one.
MetaAssignDefault(ptr, key) ==
  [x \in DOMAIN meta_ \cup {ptr} |->
     IF x = ptr THEN (IF kind = "Buffer" THEN DefaultSize ELSE DefaultDesc)
     ELSE meta_[x]]

\* meta_[ptr] = {key}
MetaAssign(ptr, key) ==
  [x \in DOMAIN meta_ \cup {ptr} |-> IF x = ptr THEN key ELSE meta_[x]]

\* A lookup that resets the record of p even when p has one.
MetaLookupResets(p, default) ==
  [x \in DOMAIN meta_ \cup {p} |-> IF x = p THEN default ELSE meta_[x]]

\* auto meta = meta_[p]: operator[] inserts a value-initialised record
MetaLookup(p, default) ==
  IF p \in DOMAIN meta_ THEN meta_ ELSE MetaAssign(p, default)

\* A push that replaces the list of the key by the one handle.
PushAlone(key, p) ==
  [k \in DOMAIN cache_ \cup {key} |-> IF k = key THEN <<p>> ELSE cache_[k]]

\* push_back(p) in place of push_front(p).
PushBack(key, p) ==
  [k \in DOMAIN cache_ \cup {key} |->
     IF k = key
     THEN (IF key \in DOMAIN cache_ THEN cache_[key] ELSE <<>>) \o <<p>>
     ELSE cache_[k]]

\* find, insert an empty list if absent, then push_front(p)
PushFront(key, p) ==
  [k \in DOMAIN cache_ \cup {key} |->
     IF k = key
     THEN <<p>> \o (IF key \in DOMAIN cache_ THEN cache_[key] ELSE <<>>)
     ELSE cache_[k]]

\* A teardown that releases only what the creation primitive returned.
ReleaseCreated == [p \in Ptrs |-> IF p \in DOMAIN device THEN 1 ELSE 0]

\* for (auto& [ptr, _] : meta_) clReleaseMemObject(ptr)
ReleaseAll == [p \in Ptrs |-> IF p \in DOMAIN meta_ THEN 1 ELSE 0]

RECURSIVE SumLen(_, _)
SumLen(f, ks) ==
  IF ks = {} THEN 0
  ELSE LET k == CHOOSE x \in ks : TRUE
       IN Len(f[k]) + SumLen(f, ks \ {k})
TotalParked == SumLen(cache_, DOMAIN cache_)

Parked(p) == \E k \in DOMAIN cache_ : \E i \in 1 .. Len(cache_[k]) : cache_[k][i] = p

\* Handles recorded under key that the caller holds.
InUse(key) == {p \in DOMAIN meta_ : meta_[p] = key /\ held[p] > 0}

\* The same once the call has returned.
InUseAfter(key) == {p \in DOMAIN meta_' : meta_'[p] = key /\ held'[p] > 0}

\* Handles the creation primitive returned for key.
Created(key) == {p \in DOMAIN device : device[p] = key}

\* ----------------------------------------------------------- observation
\* op returned ptr (Nothing when it threw or returns void) after `native`
\* creation calls, and ended with err
Call(op, ptr, native, err) ==
  [op |-> op, ptr |-> ptr, native |-> native, err |-> err]

NoCall == Call("-", Nothing, 0, "ok")

\* stage "A": the last call is a successful Alloc(k2) that returned ret.ptr;
\* "AF": the last two are Alloc(k) -> h, Free(h); "AFA": the last three are
\* Alloc(k) -> h, Free(h), Alloc(k2), the third ending as ret says; "-": none
\* of these.
NoSeq == [stage |-> "-", k |-> Null, h |-> Null, k2 |-> Null, ret |-> NoCall]
NoRun == [freed |-> <<>>, got |-> <<>>]

Count == ncalls' = IF probe = "seq" /\ ncalls < 4 THEN ncalls + 1 ELSE ncalls

\* Alloc(key) was called and ended as rec says.
ObserveAlloc(key, rec) ==
  /\ last' = IF probe = "last" THEN rec ELSE last
  /\ seq' = IF probe # "seq" THEN seq
            ELSE IF seq.stage = "AF"
            THEN [stage |-> "AFA", k |-> seq.k, h |-> seq.h, k2 |-> key, ret |-> rec]
            ELSE IF rec.err = "ok"
            THEN [stage |-> "A", k |-> Null, h |-> Null, k2 |-> key, ret |-> rec]
            ELSE NoSeq
  /\ runs' = IF key \in DOMAIN runs /\ key \in watch
             THEN [runs EXCEPT ![key] =
                     IF Len(@.got) < Len(@.freed)
                     THEN [@ EXCEPT !.got = Append(@, <<rec.ptr, rec.native>>)]
                     ELSE NoRun]
             ELSE runs
  /\ peak' = IF rec.err # "ok" \/ discipline # "inuse" THEN peak
             ELSE [k \in DOMAIN peak \cup {key} |->
                     IF k # key THEN peak[k]
                     ELSE IF key \in DOMAIN peak /\ peak[key] >= Cardinality(InUseAfter(key))
                          THEN peak[key]
                          ELSE Cardinality(InUseAfter(key))]
  /\ Count

\* Free(p) was called, p recorded under key; inuse: the caller held p.
ObserveFree(p, key, inuse) ==
  /\ last' = IF probe = "last" THEN Call("Free", Nothing, 0, "ok") ELSE last
  /\ seq' = IF probe # "seq" THEN seq
            ELSE IF seq.stage \in {"A", "AFA"} /\ seq.ret.err = "ok" /\ seq.ret.ptr = p
            THEN [stage |-> "AF", k |-> seq.k2, h |-> p, k2 |-> Null, ret |-> NoCall]
            ELSE NoSeq
  /\ runs' = [k \in DOMAIN runs \cup ({key} \cap watch) |->
               IF k # key THEN runs[k]
               ELSE IF ~inuse THEN NoRun
               ELSE IF key \in DOMAIN runs /\ runs[k].got = <<>>
                    THEN [runs[k] EXCEPT !.freed = Append(@, p)]
                    ELSE [freed |-> <<p>>, got |-> <<>>]]
  /\ Count
  /\ peak' = IF inuse THEN peak ELSE EmptyMap

\* Alloc(size_t) of the image allocator was called.
ObserveAllocSize ==
  /\ last' = IF probe = "last" THEN Call("AllocSize", Null, 0, "ok") ELSE last
  /\ seq' = IF probe # "seq" THEN seq ELSE NoSeq
  /\ Count
  /\ UNCHANGED <<runs, peak>>

\* the caller receives ptr from Alloc
Take(ptr) ==
  /\ held' = [held EXCEPT ![ptr] = @ + 1]
  /\ returned' = returned \cup {ptr}

\* the caller gives p to Free
Give(p) ==
  /\ held[p] = 0 => misuses < MaxMisuse
  /\ misuses' = IF held[p] = 0 THEN misuses + 1 ELSE misuses
  /\ held' = [held EXCEPT ![p] = IF @ > 0 THEN @ - 1 ELSE 0]
  /\ discipline' =
       IF held[p] > 0 THEN discipline
       ELSE IF p \in returned /\ discipline # "any" THEN "returned"
       ELSE "any"
  /\ UNCHANGED returned

\* Pointers a caller can hold: what Alloc gave it, live objects of somebody
\* else, and nullptr.
Freeable == DOMAIN device \cup ForeignHandles \cup {Null}

\* ------------------------------------------------ OpenCLBufferAllocator
\* A failing clCreateBuffer whose null result is recorded before the throw.
BufferAllocThrowRecords(size) ==
  /\ Miss(size)
  /\ meta_' = MetaAssign(Null, size)
  /\ UNCHANGED <<cache_, device, held, returned>>
  /\ ObserveAlloc(size, Call("Alloc", Nothing, 1, "CL_ERROR"))

\* clCreateBuffer failed: ORT_THROW_IF_CL_ERROR throws
BufferAllocThrow(size) ==
  /\ Miss(size)
  /\ UNCHANGED <<meta_, cache_, device, held, returned>>
  /\ ObserveAlloc(size, Call("Alloc", Nothing, 1, "CL_ERROR"))

\* A creation that also leaves the new buffer in the free list of its size.
BufferAllocCreateParks(size, ptr) ==
  /\ Miss(size)
  /\ ptr \in NativeHandles \ DOMAIN device
  /\ device' = device @@ (ptr :> size)
  /\ meta_' = MetaAssign(ptr, size)
  /\ cache_' = PushFront(size, ptr)
  /\ Take(ptr)
  /\ ObserveAlloc(size, Call("Alloc", ptr, 1, "ok"))

\* clCreateBuffer succeeded with ptr
BufferAllocCreate(size, ptr) ==
  /\ Miss(size)
  /\ ptr \in NativeHandles \ DOMAIN device
  /\ device' = device @@ (ptr :> size)
  /\ meta_' = MetaAssign(ptr, size)
  /\ UNCHANGED cache_
  /\ Take(ptr)
  /\ ObserveAlloc(size, Call("Alloc", ptr, 1, "ok"))

BufferAllocReuse(size) ==
  /\ ~Miss(size)
  /\ cache_' = PopFront(size)
  /\ UNCHANGED <<meta_, device>>
  /\ Take(Front(size))
  /\ ObserveAlloc(size, Call("Alloc", Front(size), 0, "ok"))

BufferAlloc(size) ==
  /\ kind = "Buffer" /\ ~destroyed
  /\ \/ BufferAllocThrow(size)
     \/ \E ptr \in NativeHandles : BufferAllocCreate(size, ptr)
     \/ BufferAllocReuse(size)
  /\ UNCHANGED <<released, kind, destroyed, discipline, misuses, probe, watch, calls, raced>>

\* A Free that hands the buffer back to the device as well as parking it.
BufferFreeReleases(p) ==
  /\ kind = "Buffer" /\ ~destroyed
  /\ meta_' = MetaLookup(p, DefaultSize)
  /\ cache_' = PushFront(meta_'[p], p)
  /\ Give(p)
  /\ ObserveFree(p, meta_'[p], held[p] > 0)
  /\ released' = [released EXCEPT ![p] = @ + 1]
  /\ UNCHANGED <<kind, destroyed, device, probe, watch, calls, raced>>

BufferFree(p) ==
  /\ kind = "Buffer" /\ ~destroyed
  /\ meta_' = MetaLookup(p, DefaultSize)
  /\ cache_' = PushFront(meta_'[p], p)
  /\ Give(p)
  /\ ObserveFree(p, meta_'[p], held[p] > 0)
  /\ UNCHANGED <<released, kind, destroyed, device, probe, watch, calls, raced>>

BufferDestroy ==
  /\ kind = "Buffer" /\ ~destroyed
  /\ released' = ReleaseAll
  /\ destroyed' = TRUE
  /\ meta_' = EmptyMap
  /\ cache_' = EmptyMap
  /\ UNCHANGED <<kind, device, held, discipline, misuses, returned, last, seq, probe, watch,
          runs, ncalls, peak, calls, raced>>

\* ----------------------------------------------- OpenCLImage2DAllocator
\* A height check that lets zero through.
HeightOkFromZero(desc) == Height(desc) >= 0 /\ Height(desc) <= image_max_wh[2]

HeightOk(desc) == Height(desc) > 0 /\ Height(desc) <= image_max_wh[2]
WidthOk(desc) == Width(desc) > 0 /\ Width(desc) <= image_max_wh[1]

\* The two checks in the other order: the width is enforced first.
Image2DAllocEnforceWidthFirst(desc) ==
  /\ Miss(desc)
  /\ ~(HeightOk(desc) /\ WidthOk(desc))
  /\ UNCHANGED <<meta_, cache_, device, held, returned>>
  /\ ObserveAlloc(desc, Call("Alloc", Nothing, 0,
                  IF ~WidthOk(desc) THEN "Image2D width invalid"
                                    ELSE "Image2D height invalid"))

\* What a failed ORT_ENFORCE reports: its message, and with it the condition
\* that was false, which compares one dimension with one entry of
\* image_max_wh.
Enforced(err) ==
  IF err = "Image2D height invalid"
  THEN [dimension |-> "Height", limit |-> image_max_wh[2]]
  ELSE IF err = "Image2D width invalid"
  THEN [dimension |-> "Width", limit |-> image_max_wh[1]]
  ELSE [dimension |-> "-", limit |-> Nothing]

\* ORT_ENFORCE on the height, then on the width
Image2DAllocEnforce(desc) ==
  /\ Miss(desc)
  /\ ~(HeightOk(desc) /\ WidthOk(desc))
  /\ UNCHANGED <<meta_, cache_, device, held, returned>>
  /\ ObserveAlloc(desc, Call("Alloc", Nothing, 0,
                  IF ~HeightOk(desc) THEN "Image2D height invalid"
                                     ELSE "Image2D width invalid"))

Image2DAllocThrow(desc) ==
  /\ Miss(desc)
  /\ HeightOk(desc) /\ WidthOk(desc)
  /\ UNCHANGED <<meta_, cache_, device, held, returned>>
  /\ ObserveAlloc(desc, Call("Alloc", Nothing, 1, "CL_ERROR"))

Image2DAllocCreate(desc, ptr) ==
  /\ Miss(desc)
  /\ HeightOk(desc) /\ WidthOk(desc)
  /\ ptr \in NativeHandles \ DOMAIN device
  /\ device' = device @@ (ptr :> desc)
  /\ meta_' = MetaAssign(ptr, desc)
  /\ UNCHANGED cache_
  /\ Take(ptr)
  /\ ObserveAlloc(desc, Call("Alloc", ptr, 1, "ok"))

Image2DAllocReuse(desc) ==
  /\ ~Miss(desc)
  /\ cache_' = PopFront(desc)
  /\ UNCHANGED <<meta_, device>>
  /\ Take(Front(desc))
  /\ ObserveAlloc(desc, Call("Alloc", Front(desc), 0, "ok"))

Image2DAlloc(desc) ==
  /\ kind = "Image2D" /\ ~destroyed
  /\ \/ Image2DAllocEnforce(desc)
     \/ Image2DAllocThrow(desc)
     \/ \E ptr \in NativeHandles : Image2DAllocCreate(desc, ptr)
     \/ Image2DAllocReuse(desc)
  /\ UNCHANGED <<released, kind, destroyed, discipline, misuses, probe, watch, calls, raced>>

\* An Alloc(size_t) that treats the size as the width of a one-row image.
Image2DAllocSizeAsWidth(size) == Image2DAlloc(<<size, MaxImageHeight>>)

\* void* Alloc(size_t): not supported
Image2DAllocSize(size) ==
  /\ kind = "Image2D" /\ ~destroyed
  /\ ObserveAllocSize
  /\ UNCHANGED <<released, kind, meta_, cache_, device, destroyed, held, discipline,
                 misuses, returned, probe, watch, calls, raced>>

Image2DFree(p) ==
  /\ kind = "Image2D" /\ ~destroyed
  /\ meta_' = MetaLookup(p, DefaultDesc)
  /\ cache_' = PushFront(meta_'[p], p)
  /\ Give(p)
  /\ ObserveFree(p, meta_'[p], held[p] > 0)
  /\ UNCHANGED <<released, kind, destroyed, device, probe, watch, calls, raced>>

Image2DDestroy ==
  /\ kind = "Image2D" /\ ~destroyed
  /\ released' = ReleaseAll
  /\ destroyed' = TRUE
  /\ meta_' = EmptyMap
  /\ cache_' = EmptyMap
  /\ UNCHANGED <<kind, device, held, discipline, misuses, returned, last, seq, probe, watch,
          runs, ncalls, peak, calls, raced>>

\* --------------------------------------------------------- specification
Construct ==
  /\ kind \in {"Buffer", "Image2D"}
  /\ meta_ = EmptyMap
  /\ cache_ = EmptyMap
  /\ device = EmptyMap
  /\ released = [p \in Ptrs |-> 0]
  /\ destroyed = FALSE
  /\ held = [p \in Ptrs |-> 0]
  /\ discipline = "inuse"
  /\ misuses = 0
  /\ returned = {}
  /\ last = NoCall
  /\ seq = NoSeq
  /\ runs = EmptyMap
  /\ ncalls = 0
  /\ peak = EmptyMap
  /\ calls = [t \in Contexts |-> Idle]
  /\ raced = FALSE

\* Keys a handle can be recorded under.
LiveKeys ==
  IF kind = "Buffer" THEN Sizes
  ELSE {DefaultDesc} \cup {d \in Descs : HeightOk(d) /\ WidthOk(d)}

\* The program, observed through the outcome of its most recent call.
Init == Construct /\ probe = "last" /\ watch = {}

\* The same program, observed through its most recent Alloc, Free, Alloc.
InitSeq == Construct /\ probe = "seq" /\ watch = {}

\* The same program, observed through the runs of Free calls of one key.
InitLifo == Construct /\ probe = "runs" /\ \E k \in LiveKeys : watch = {k}

Next ==
  \/ \E size \in Sizes : BufferAlloc(size)
  \/ \E p \in Freeable : BufferFree(p)
  \/ BufferDestroy
  \/ \E size \in Sizes : Image2DAllocSize(size)
  \/ \E desc \in Descs : Image2DAlloc(desc)
  \/ \E p \in Freeable : Image2DFree(p)
  \/ Image2DDestroy

Spec == Init /\ [][Next]_vars

SpecSeq == InitSeq /\ [][Next]_vars

SpecLifo == InitLifo /\ [][Next]_vars

\* ------------------------------------- Alloc, statement by statement
\* No lock is taken anywhere in the file, so the statements of an Alloc in
\* one execution context can run between those of an Alloc in another.  The
\* hit path is followed statement by statement; the miss branch and Free run
\* as one step.  front() and pop_front() on a list another context has just
\* emptied are undefined: front() can yield any pointer, pop_front() can
\* leave the list alone, and either can end the process.
AllocKeys == IF kind = "Buffer" THEN Sizes ELSE Descs

Running == ~destroyed /\ \A t \in Contexts : calls[t].pc # "crashed"

\* context t takes a step; it races when another context is inside Alloc
Step(t) ==
  raced' = IF \E u \in Contexts \ {t} : calls[u].pc \notin {"idle", "crashed"}
           THEN TRUE ELSE raced

At(t, pc) == Running /\ calls[t].pc = pc

\* No handle is in use twice and no front() has read an emptied list.  Calls
\* under way are followed to their end after that; no new call is started.
Sound == (\A p \in Ptrs : held[p] <= 1) /\ (\A t \in Contexts : ~calls[t].blind)

Goto(t, pc, ptr, blind) ==
  calls' = [calls EXCEPT ![t] =
              [pc |-> pc, key |-> IF pc = "idle" THEN Null ELSE @.key,
               ptr |-> ptr, blind |-> blind]]

\* auto it = cache_.find(key); the test of the if is false: a hit
AllocFind(t, key) ==
  /\ At(t, "idle") /\ Sound
  /\ ~Miss(key)
  /\ calls' = [calls EXCEPT ![t] = [pc |-> "front", key |-> key, ptr |-> Null, blind |-> FALSE]]
  /\ Step(t)
  /\ UNCHANGED <<kind, meta_, cache_, device, released, destroyed, held, discipline,
                 misuses, returned, last, seq, probe, watch, runs, ncalls, peak>>

\* the test of the if is true: the miss branch
AllocMiss(t, key) ==
  /\ At(t, "idle") /\ Sound
  /\ IF kind = "Buffer"
     THEN \/ BufferAllocThrow(key)
          \/ \E ptr \in NativeHandles : BufferAllocCreate(key, ptr)
     ELSE \/ Image2DAllocEnforce(key)
          \/ Image2DAllocThrow(key)
          \/ \E ptr \in NativeHandles : Image2DAllocCreate(key, ptr)
  /\ Step(t)
  /\ UNCHANGED <<released, kind, destroyed, discipline, misuses, probe, watch, calls>>

\* auto* ptr = it->second.front()
AllocFront(t) ==
  /\ At(t, "front")
  /\ IF cache_[calls[t].key] # <<>>
     THEN Goto(t, "pop", Front(calls[t].key), FALSE)
     ELSE \/ \E v \in Ptrs : Goto(t, "pop", v, TRUE)
          \/ Goto(t, "crashed", Null, TRUE)
  /\ Step(t)
  /\ UNCHANGED <<kind, meta_, cache_, device, released, destroyed, held, discipline,
                 misuses, returned, last, seq, probe, watch, runs, ncalls, peak>>

\* A hit that returns the front without removing it.
AllocPopSkips(t) ==
  /\ At(t, "pop")
  /\ Goto(t, "return", calls[t].ptr, calls[t].blind)
  /\ Step(t)
  /\ UNCHANGED <<kind, meta_, cache_, device, released, destroyed, held, discipline,
                 misuses, returned, last, seq, probe, watch, runs, ncalls, peak>>

\* it->second.pop_front()
AllocPop(t) ==
  /\ At(t, "pop")
  /\ IF cache_[calls[t].key] # <<>>
     THEN /\ cache_' = PopFront(calls[t].key)
          /\ Goto(t, "return", calls[t].ptr, calls[t].blind)
     ELSE /\ UNCHANGED cache_
          /\ \/ Goto(t, "return", calls[t].ptr, calls[t].blind)
             \/ Goto(t, "crashed", Null, TRUE)
  /\ Step(t)
  /\ UNCHANGED <<kind, meta_, device, released, destroyed, held, discipline,
                 misuses, returned, last, seq, probe, watch, runs, ncalls, peak>>

\* return ptr
AllocReturn(t) ==
  /\ At(t, "return")
  /\ UNCHANGED <<kind, meta_, cache_, device, released, destroyed, discipline,
                 misuses, probe, watch>>
  /\ Take(calls[t].ptr)
  /\ ObserveAlloc(calls[t].key, Call("Alloc", calls[t].ptr, 0, "ok"))
  /\ Goto(t, "idle", Null, calls[t].blind)
  /\ Step(t)

\* Free of a handle in use, while no context is inside Alloc
FreeInUse(p) ==
  /\ Running /\ Sound
  /\ \A t \in Contexts : calls[t].pc = "idle"
  /\ held[p] > 0
  /\ IF kind = "Buffer" THEN BufferFree(p) ELSE Image2DFree(p)

NextRace ==
  \/ \E t \in Contexts : \E key \in AllocKeys : AllocFind(t, key)
  \/ \E t \in Contexts : \E key \in AllocKeys : AllocMiss(t, key)
  \/ \E t \in Contexts : AllocFront(t)
  \/ \E t \in Contexts : AllocPop(t)
  \/ \E t \in Contexts : AllocReturn(t)
  \/ \E p \in Ptrs : FreeInUse(p)

\* The two allocators called from several contexts with no serialization.
SpecRace == Init /\ [][NextRace]_vars

\* ------------------------------------------------------------ properties

\* Number of times p occurs in the free lists.
RECURSIVE CountIn(_, _)
CountIn(list, p) ==
  IF list = <<>> THEN 0
  ELSE (IF Head(list) = p THEN 1 ELSE 0) + CountIn(Tail(list), p)
RECURSIVE Occurrences(_, _)
Occurrences(p, ks) ==
  IF ks = {} THEN 0
  ELSE LET k == CHOOSE x \in ks : TRUE
       IN CountIn(cache_[k], p) + Occurrences(p, ks \ {k})

\* The dimension check of the specification, written out on the numbers.
InRange(desc) ==
  /\ 0 < desc[1] /\ desc[1] <= MaxImageWidth
  /\ 0 < desc[2] /\ desc[2] <= MaxImageHeight

\* C1. Reuse: when the last three calls are Alloc(k) returning h1, Free(h1)
\* and Alloc(k) with the same key, the last one succeeded, returned h1 and
\* made no native creation call.  Checked under SpecSeq, for both allocators.
C1_Reuse ==
  (seq.stage = "AFA" /\ seq.k2 = seq.k) =>
    /\ seq.ret.err = "ok"
    /\ seq.ret.ptr = seq.h
    /\ seq.ret.native = 0

\* The image allocator has just reused a handle it created for the same
\* descriptor one Free earlier.
C1_Witness ==
  /\ kind = "Image2D"
  /\ seq.stage = "AFA" /\ seq.k2 = seq.k
  /\ seq.ret.ptr = seq.h /\ seq.h \in DOMAIN device

\* C2 as stated. Key isolation on a freshly constructed allocator: after
\* exactly the three calls Alloc(k1) returning h1, Free(h1), Alloc(k2) with
\* k1 # k2, the last call did not return h1, made a native creation call, and
\* h1 is parked in the free list of k1.
C2_Original ==
  (seq.stage = "AFA" /\ seq.k2 # seq.k /\ ncalls = 3) =>
    /\ seq.ret.ptr # seq.h
    /\ seq.ret.native = 1
    /\ seq.k \in DOMAIN cache_ /\ cache_[seq.k] = <<seq.h>>

\* C2, amended. In any state, an Alloc(k2) that follows Alloc(k1) returning
\* h1 and Free(h1), k1 # k2, does not return h1 and leaves h1 at the front of
\* the free list of k1; it makes a native creation call exactly when the free
\* list of k2 is absent or empty and k2 passes the dimension check (which the
\* buffer allocator does not have).
C2_KeyIsolation ==
  [][(seq.stage = "AF" /\ seq'.stage = "AFA" /\ seq'.k2 # seq.k) =>
       /\ seq'.ret.ptr # seq.h
       /\ seq.k \in DOMAIN cache_'
       /\ cache_'[seq.k] # <<>>
       /\ Head(cache_'[seq.k]) = seq.h
       /\ (seq'.ret.native = 1) <=>
            (Miss(seq'.k2) /\ (kind = "Buffer" \/ InRange(seq'.k2)))]_vars

\* Alloc, Free, Alloc with two different keys, the last one served from the
\* free list of its own key.
C2_Witness ==
  /\ seq.stage = "AFA" /\ seq.k2 # seq.k
  /\ seq.ret.err = "ok" /\ seq.ret.native = 0
  /\ seq.h \in DOMAIN device

\* C3. Free-list order is LIFO: for every key, the handles that Alloc(k) has
\* returned since a run of Free calls on in-use handles of key k are the
\* handles of that run in reverse order, each without a native creation
\* call.  Checked under SpecLifo.
C3_Lifo ==
  \A k \in DOMAIN runs :
    \A i \in 1 .. Len(runs[k].got) :
      runs[k].got[i] = <<runs[k].freed[Len(runs[k].freed) + 1 - i], 0>>

\* Two different handles of one key were freed, and both came back.
C3_Witness ==
  \E k \in DOMAIN runs :
    /\ Len(runs[k].freed) = 2 /\ Len(runs[k].got) = 2
    /\ runs[k].freed[1] # runs[k].freed[2]

\* C4 as stated. Teardown releases everything exactly once: once the
\* destructor has run, each handle the native creation primitive returned to
\* this allocator has been released exactly once and no other value has been
\* released at all.
C4_Original ==
  destroyed =>
    \A p \in Ptrs : released[p] = IF p \in DOMAIN device THEN 1 ELSE 0

\* C5. Image validation boundary: an Alloc(descriptor) that misses the cache
\* with a dimension out of range ends with one of the two dimension errors,
\* makes no native creation call and leaves the metadata table, the free
\* lists and the device untouched; one with both dimensions in range (the
\* largest included) reaches the native creation call and, when that
\* succeeds, hands the new handle to the caller.
C5_Validation ==
  [][\A desc \in Descs :
       (kind = "Image2D" /\ Miss(desc) /\ Image2DAlloc(desc)) =>
         IF InRange(desc)
         THEN /\ last'.native = 1
              /\ last'.err \in {"ok", "CL_ERROR"}
              /\ last'.err = "ok" =>
                   /\ last'.ptr \in NativeHandles \ DOMAIN device
                   /\ held'[last'.ptr] = 1
                   /\ meta_'[last'.ptr] = desc
         ELSE /\ last'.err \in {"Image2D height invalid", "Image2D width invalid"}
              /\ last'.native = 0
              /\ last'.ptr = Nothing
              /\ UNCHANGED <<meta_, cache_, device, held>>]_vars

\* An image of the largest size exists, and the last call was rejected for a
\* dimension out of range.
C5_Witness ==
  /\ kind = "Image2D"
  /\ \E p \in DOMAIN device : device[p] = <<MaxImageWidth, MaxImageHeight>>
  /\ last.op = "Alloc"
  /\ last.err \in {"Image2D height invalid", "Image2D width invalid"}

\* C6 as stated. Free of an unknown handle is rejected: a Free(p) with p
\* absent from the metadata table does not end normally and leaves the
\* metadata table and the free lists unchanged.
C6_Original ==
  [][\A p \in Ptrs :
       ((BufferFree(p) \/ Image2DFree(p)) /\ p \notin DOMAIN meta_) =>
         /\ last'.err # "ok"
         /\ UNCHANGED <<meta_, cache_>>]_vars

\* Every handle is parked at most once, and none is parked while in use.
Disjoint ==
  \A p \in Ptrs :
    /\ Occurrences(p, DOMAIN cache_) <= 1
    /\ ~(Occurrences(p, DOMAIN cache_) >= 1 /\ held[p] > 0)

\* C7 as stated. Free-list disjointness whenever every Free so far was given
\* a handle that some earlier Alloc had returned.
C7_Original == discipline \in {"inuse", "returned"} => Disjoint

\* C7, amended. Free-list disjointness whenever every Free so far was given a
\* handle that was in use at that moment (returned by Alloc and not passed to
\* Free since).
C7_Disjoint == discipline = "inuse" => Disjoint

\* Under that discipline, one handle is parked while another is in use.
C7_Witness ==
  /\ discipline = "inuse"
  /\ \E p, q \in NativeHandles :
       /\ p # q
       /\ Occurrences(p, DOMAIN cache_) = 1
       /\ held[q] = 1

\* C8 as stated. Metadata coverage: before destruction, every handle in use
\* or parked has a record, and the record holds the key the handle was
\* created with.
C8_Original ==
  ~destroyed =>
    \A p \in Ptrs :
      (held[p] > 0 \/ Parked(p)) =>
        /\ p \in DOMAIN meta_
        /\ p \in DOMAIN device
        /\ meta_[p] = device[p]

\* C9. No early release: as long as the destructor has not run, no native
\* release has been issued on any pointer.
C9_NoEarlyRelease == ~destroyed => \A p \in Ptrs : released[p] = 0

\* Handles have been created, parked and reused, and nothing is released.
C9_Witness ==
  /\ ~destroyed
  /\ last.op = "Alloc" /\ last.native = 0 /\ last.err = "ok"
  /\ TotalParked > 0
  /\ \A p \in Ptrs : released[p] = 0

\* C10. Unsupported scalar path: Alloc(size_t) of the image allocator returns
\* nullptr for every size, makes no native creation call, and leaves the
\* metadata table, the free lists, the device and the caller's handles as
\* they were.
C10_Unsupported ==
  [][\A size \in Sizes :
       Image2DAllocSize(size) =>
         /\ last'.ptr = Null
         /\ last'.native = 0
         /\ UNCHANGED <<meta_, cache_, device, held>>]_vars

\* Alloc(size_t) has just returned while a handle sits in a free list.
C10_Witness ==
  /\ last.op = "AllocSize" /\ last.ptr = Null
  /\ TotalParked > 0

\* C11. Native allocation failure is atomic: an Alloc that ends with the
\* error of the native creation primitive was a miss, made exactly one
\* creation call, returned nothing, and left the metadata table, the free
\* lists, the device and the caller's handles as they were.
C11_Atomic ==
  [][/\ \A size \in Sizes :
          (last'.err = "CL_ERROR" /\ BufferAlloc(size)) =>
            /\ Miss(size)
            /\ last'.native = 1 /\ last'.ptr = Nothing
            /\ UNCHANGED <<meta_, cache_, device, held, returned>>
     /\ \A desc \in Descs :
          (last'.err = "CL_ERROR" /\ Image2DAlloc(desc)) =>
            /\ Miss(desc)
            /\ last'.native = 1 /\ last'.ptr = Nothing
            /\ UNCHANGED <<meta_, cache_, device, held, returned>>]_vars

\* The creation primitive has just failed while one handle is parked and
\* another is in use.
C11_Witness ==
  /\ last.op = "Alloc" /\ last.err = "CL_ERROR" /\ last.native = 1
  /\ TotalParked > 0
  /\ \E p \in NativeHandles : held[p] = 1

\* C12. Exclusive use under well-formed calls: as long as every Free was
\* given a handle in use at that moment, no handle is held through two
\* outstanding Alloc results, and an Alloc never returns a handle that is
\* still in use.
C12_Exclusive ==
  discipline = "inuse" =>
    /\ \A p \in Ptrs : held[p] <= 1
    /\ (last.op = "Alloc" /\ last.err = "ok") => held[last.ptr] = 1

\* Under that discipline a handle has been parked and handed out again while
\* another one is parked.
C12_Witness ==
  /\ discipline = "inuse"
  /\ last.op = "Alloc" /\ last.err = "ok" /\ last.native = 0
  /\ held[last.ptr] = 1
  /\ TotalParked > 0

\* Every handle in the free list of key k has a record whose key is k.
ParkedUnderRecordedKey ==
  \A k \in DOMAIN cache_ : \A i \in 1 .. Len(cache_[k]) :
    /\ cache_[k][i] \in DOMAIN meta_
    /\ meta_[cache_[k][i]] = k

\* C13 as stated. Key consistency of reuse: after every step each parked
\* handle has a record whose key is that of its free list, and every handle
\* a successful Alloc(k) returns, fresh or reused, is one the native creation
\* primitive created with exactly key k.
C13_Original ==
  [][/\ ParkedUnderRecordedKey'
     /\ \A size \in Sizes :
          (BufferAlloc(size) /\ last'.err = "ok") =>
            /\ last'.ptr \in DOMAIN device'
            /\ device'[last'.ptr] = size
     /\ \A desc \in Descs :
          (Image2DAlloc(desc) /\ last'.err = "ok") =>
            /\ last'.ptr \in DOMAIN device'
            /\ device'[last'.ptr] = desc]_vars

\* C14. Silent acceptance of an unknown Free: Free(p) of a pointer the
\* allocator never created and has no record of returns normally, adds a
\* record for p with the default key (size 0 / the zero descriptor) and puts
\* p at the front of the free list of that key; an Alloc of a key finding p
\* at the front of its list returns p without a native creation call; and the
\* destructor issues a release on every pointer that has a record, p
\* included.
C14_SilentFree ==
  [][/\ \A p \in Ptrs :
          ((BufferFree(p) \/ Image2DFree(p))
             /\ p \notin DOMAIN device /\ p \notin DOMAIN meta_) =>
            LET key == IF kind = "Buffer" THEN DefaultSize ELSE DefaultDesc
            IN /\ last'.err = "ok"
               /\ DOMAIN meta_' = DOMAIN meta_ \cup {p}
               /\ meta_'[p] = key
               /\ \A q \in DOMAIN meta_ : meta_'[q] = meta_[q]
               /\ cache_'[key] =
                    <<p>> \o (IF key \in DOMAIN cache_ THEN cache_[key] ELSE <<>>)
     /\ (BufferAlloc(DefaultSize) \/ Image2DAlloc(DefaultDesc)) =>
          LET key == IF kind = "Buffer" THEN DefaultSize ELSE DefaultDesc
          IN (~Miss(key) /\ Front(key) \notin DOMAIN device) =>
               /\ last'.err = "ok" /\ last'.native = 0
               /\ last'.ptr = Front(key)
     /\ (BufferDestroy \/ Image2DDestroy) =>
          \A p \in DOMAIN meta_ : released'[p] = 1]_vars

\* A pointer the allocator never created was handed out by Alloc without a
\* creation call and has been released by the destructor.
C14_Witness ==
  /\ destroyed
  /\ last.op = "Alloc" /\ last.err = "ok" /\ last.native = 0
  /\ last.ptr \in ForeignHandles
  /\ released[last.ptr] = 1
  /\ DOMAIN device # {}

\* C15 as stated. Validation is sound although it is skipped on hits: on the
\* image allocator, after every step no free list holds a handle under a
\* descriptor that would fail the dimension check, and every successful
\* Alloc(descriptor), hit or miss, is for a descriptor with both dimensions in
\* range.
C15_Original ==
  [][kind = "Image2D" =>
       /\ \A k \in DOMAIN cache_' : cache_'[k] # <<>> => InRange(k)
       /\ \A desc \in Descs :
            (Image2DAlloc(desc) /\ last'.err = "ok") => InRange(desc)]_vars

\* The free list of key exists and is empty.
Drained(key) == IF key \in DOMAIN cache_ THEN cache_[key] = <<>> ELSE FALSE

\* C16 as stated. An emptied free list counts as a miss: an Alloc(k) that
\* finds the free list of k present and empty performs a native creation call
\* and returns a new handle, distinct from every handle created before.
C16_Original ==
  [][/\ \A size \in Sizes :
          (kind = "Buffer" /\ Drained(size) /\ BufferAlloc(size)) =>
            /\ last'.native = 1 /\ last'.err = "ok"
            /\ last'.ptr \in NativeHandles \ DOMAIN device
     /\ \A desc \in Descs :
          (kind = "Image2D" /\ Drained(desc) /\ Image2DAlloc(desc)) =>
            /\ last'.native = 1 /\ last'.err = "ok"
            /\ last'.ptr \in NativeHandles \ DOMAIN device]_vars

\* What an Alloc that found the list of its key drained did, as the amended
\* C16 has it.
DrainedIsMiss(key) ==
  /\ IF kind = "Image2D" /\ ~InRange(key)
     THEN /\ last'.native = 0
          /\ last'.err \in {"Image2D height invalid", "Image2D width invalid"}
     ELSE /\ last'.native = 1
          /\ last'.err \in {"ok", "CL_ERROR"}
  /\ last'.err = "ok" =>
       /\ last'.ptr \in NativeHandles \ DOMAIN device
       /\ last'.ptr \notin DOMAIN meta_
       /\ last'.ptr \in DOMAIN device'
  /\ last'.err # "ok" => last'.ptr = Nothing
  /\ UNCHANGED cache_

\* C16, amended. An emptied free list counts as a miss: an Alloc(k) that
\* finds the free list of k present and empty takes the miss path. It makes
\* one native creation call, unless k is an image descriptor out of range,
\* which is rejected before any call; when the call succeeds it returns a new
\* handle, distinct from every handle created or recorded before, and
\* otherwise it returns nothing. The empty list is left as it is: no null or
\* stale handle comes out of it.
C16_DrainedIsMiss ==
  [][/\ \A size \in Sizes :
          (kind = "Buffer" /\ Drained(size) /\ BufferAlloc(size)) => DrainedIsMiss(size)
     /\ \A desc \in Descs :
          (kind = "Image2D" /\ Drained(desc) /\ Image2DAlloc(desc)) => DrainedIsMiss(desc)]_vars

\* The free list of a key is present and empty, one handle of that key is in
\* use, and the last call created a second one for the same key.
C16_Witness ==
  /\ last.op = "Alloc" /\ last.err = "ok" /\ last.native = 1
  /\ \E p \in DOMAIN device :
       /\ p # last.ptr
       /\ device[p] = device[last.ptr]
       /\ held[p] = 1
       /\ Drained(device[p])

\* The free lists after the step are those before it with the list of key
\* replaced by list, all other lists being the same.
OnlyListChanged(key, list) ==
  /\ DOMAIN cache_' = DOMAIN cache_ \cup {key}
  /\ cache_'[key] = list
  /\ \A k \in DOMAIN cache_ \ {key} : cache_'[k] = cache_[k]

\* C17. Frame of hit and park: an Alloc(k) that hits returns the front of the
\* free list of k and removes it, changing neither the rest of that list, nor
\* the free lists of other keys, nor the metadata table; a Free(h) of a
\* handle that has a record puts h in front of the free list of the recorded
\* key, changing neither the elements already there, nor the free lists of
\* other keys, nor the metadata table.
C17_Frame ==
  [][/\ \A size \in Sizes :
          (kind = "Buffer" /\ ~Miss(size) /\ BufferAlloc(size)) =>
            /\ last'.ptr = Head(cache_[size])
            /\ OnlyListChanged(size, Tail(cache_[size]))
            /\ UNCHANGED <<meta_, device, released>>
     /\ \A desc \in Descs :
          (kind = "Image2D" /\ ~Miss(desc) /\ Image2DAlloc(desc)) =>
            /\ last'.ptr = Head(cache_[desc])
            /\ OnlyListChanged(desc, Tail(cache_[desc]))
            /\ UNCHANGED <<meta_, device, released>>
     /\ \A p \in Ptrs :
          (p \in DOMAIN meta_ /\ (BufferFree(p) \/ Image2DFree(p))) =>
            /\ OnlyListChanged(meta_[p],
                 <<p>> \o (IF meta_[p] \in DOMAIN cache_
                           THEN cache_[meta_[p]] ELSE <<>>))
            /\ UNCHANGED <<meta_, device, released>>]_vars

\* A handle has just been parked in front of another one of the same key.
C17_Witness ==
  /\ last.op = "Free"
  /\ \E k \in DOMAIN cache_ :
       /\ Len(cache_[k]) = 2
       /\ cache_[k][1] # cache_[k][2]
       /\ \A i \in 1 .. 2 : cache_[k][i] \in DOMAIN device

\* The largest number of handles of key in use at one time so far.
Peak(key) == IF key \in DOMAIN peak THEN peak[key] ELSE 0

\* Every handle created for key is in use.
AllInUse(key) == \A p \in Created(key) : held[p] = 1

\* C18. Allocation economy: as long as every Free was given a handle in use
\* at that moment, an Alloc(k) reaches the native creation call only when
\* every handle created for k is in use, and after every step the number of
\* handles created for each key is the largest number of handles of that key
\* that were in use at one time.
C18_Economy ==
  [][/\ \A size \in Sizes :
          (discipline = "inuse" /\ last'.native = 1 /\ BufferAlloc(size)) =>
            AllInUse(size)
     /\ \A desc \in Descs :
          (discipline = "inuse" /\ last'.native = 1 /\ Image2DAlloc(desc)) =>
            AllInUse(desc)
     /\ discipline' = "inuse" =>
          \A k \in LiveKeys : Cardinality(Created(k)') = Peak(k)']_vars

\* Under well-formed usage two handles of one key were in use at one time,
\* fewer are now, and the last call reused a parked handle while another is
\* still parked.
C18_Witness ==
  /\ discipline = "inuse"
  /\ \E k \in DOMAIN peak : peak[k] = 2 /\ Cardinality(InUse(k)) < 2
  /\ TotalParked > 0
  /\ last.op = "Alloc" /\ last.err = "ok" /\ last.native = 0

C20_Serialized ==
  ~raced =>
    /\ \A p \in Ptrs : held[p] <= 1
    /\ \A t \in Contexts : ~calls[t].blind /\ calls[t].pc # "crashed"

\* The only handle ever created is in use twice: two Alloc calls have
\* returned it, each having read it from the front of a list that still held
\* it, and every context is back outside Alloc.
C20_Witness ==
  /\ raced
  /\ \A t \in Contexts : calls[t].pc = "idle" /\ ~calls[t].blind
  /\ \E h \in NativeHandles :
       /\ DOMAIN device = {h}
       /\ held[h] = 2
       /\ Drained(device[h])

====
